---- MODULE Spec2Model ----
(***************************************************************************)
(* Model of the MetricsDisplay component (MetricsDisplay.tsx): the state   *)
(* hooks `metrics` and `error`, the async function fetchMetrics, and the   *)
(* mount effect that calls fetchMetrics once and arms a 10 s interval.     *)
(*                                                                         *)
(* A timestamp string is modelled by a natural number: the code only ever  *)
(* compares timestamps with ===, so distinct numbers stand for distinct    *)
(* strings.                                                                *)
(***************************************************************************)
EXTENDS Integers, Sequences, FiniteSets, TLC

\* ------------------------------------------------------------------ bounds
\* Number of distinct timestamps the source can return beyond the capacity.
Extra == 2
\* Number of fetchMetrics calls (the mount call plus timer ticks).
MaxPolls == 2

\* ------------------------------------------------------- program constants
\* uniqueMetrics.slice(-10)
Capacity == 10

NumTs == Capacity + Extra
Timestamps == 1..NumTs

\* (block_height, btc_price) pairs a response may carry.
Cached == [block_height |-> 800000, btc_price |-> 60000]
Fresh == [block_height |-> 800001, btc_price |-> 99999]
Quotes == {Cached, Fresh}

\* interface Metrics
Metrics(t, q) ==
    [block_height |-> q.block_height, btc_price |-> q.btc_price, timestamp |-> t]

\* n samples with consecutive timestamps a, a+1, ..., all carrying quote q.
Run(a, n, q) == [i \in 1..n |-> Metrics(a + i - 1, q)]

\* response.data, as the source may answer a poll:
\*   the history from the first timestamp on (any length, also empty and
\*   longer than the capacity),
PrefixRuns == { Run(1, n, q) : n \in 0..NumTs, q \in Quotes }
\*   the newest samples up to the latest timestamp, freshly quoted,
TailRuns == { Run(a, NumTs - a + 1, Fresh) : a \in Timestamps }
\*   or one timestamp twice, with two different quotes.
DupPairs == { <<Metrics(t, Cached), Metrics(t, Fresh)>> : t \in Timestamps }

Responses == PrefixRuns \cup TailRuns \cup DupPairs

NoError == "null"
ErrorFetching == "Error fetching data"

VARIABLES
    metrics,    \* useState<Metrics[]>([])
    error,      \* useState<string | null>(null)
    effect,     \* "pending" | "mounted" | "cleaned": the useEffect's stage
    intervalId, \* "none" | "armed" | "cleared": the setInterval handle
    started,    \* number of fetchMetrics calls made so far
    inflight,   \* fetchMetrics calls suspended at `await axios.get`
    arrived,    \* history: distinct timestamps in order of first arrival
    last        \* history: the step taken last

vars == <<metrics, error, effect, intervalId, started, inflight, arrived, last>>

\* ------------------------------------------------------ the state updater
Max(a, b) == IF a >= b THEN a ELSE b
Min(a, b) == IF a <= b THEN a ELSE b

\* self.findIndex((m) => m.timestamp === ts): the first matching index
\* (0 when none, for JavaScript's -1).
findIndex(self, ts) ==
    LET hits == { i \in 1..Len(self) : self[i].timestamp = ts }
    IN  IF hits = {} THEN 0
        ELSE CHOOSE i \in hits : \A j \in hits : i <= j

\* Variant: the callback compares whole samples instead of timestamps.
keepsIndex_ByWholeSample(self, index) ==
    index = CHOOSE i \in 1..Len(self) :
                /\ self[i] = self[index]
                /\ \A j \in 1..(i - 1) : self[j] # self[index]

\* Variant: the callback keeps the last occurrence of a timestamp.
keepsIndex_LastOccurrence(self, index) ==
    \A j \in (index + 1)..Len(self) :
        self[j].timestamp # self[index].timestamp

\* The filter callback: index === self.findIndex(...)
keepsIndex(self, index) == index = findIndex(self, self[index].timestamp)

\* combinedMetrics.filter((metric, index, self) => ...): the callback is
\* applied to every index in order and the samples it accepts are kept.
uniqueMetrics(combinedMetrics) ==
    LET indexes == [i \in 1..Len(combinedMetrics) |-> i]
        kept == SelectSeq(indexes, LAMBDA i : keepsIndex(combinedMetrics, i))
    IN  [k \in 1..Len(kept) |-> combinedMetrics[kept[k]]]

\* Variant: the response is spread before the previous window.
combinedMetrics_ResponseFirst(prevMetrics, data) == data \o prevMetrics

\* [...prevMetrics, ...response.data]
combinedMetrics(prevMetrics, data) == prevMetrics \o data

\* Variant: slice(-(count + 1)).
sliceLast_OffByOne(s, count) ==
    SubSeq(s, Max(Len(s) - count - 1, 0) + 1, Len(s))

\* Variant: slice(0, count), which drops from the back.
sliceLast_KeepsFront(s, count) == SubSeq(s, 1, Min(Len(s), count))

\* Array.prototype.slice(-count)
sliceLast(s, count) == SubSeq(s, Max(Len(s) - count, 0) + 1, Len(s))

\* The function passed to setMetrics.
updater(prevMetrics, data) ==
    sliceLast(uniqueMetrics(combinedMetrics(prevMetrics, data)), Capacity)

\* ----------------------------------------------------------------- history
TimestampsOf(s) == { s[i].timestamp : i \in 1..Len(s) }

RECURSIVE appendNew(_, _)
appendNew(seen, data) ==
    IF data = <<>> THEN seen
    ELSE appendNew(IF \E i \in 1..Len(seen) : seen[i] = Head(data).timestamp
                   THEN seen ELSE Append(seen, Head(data).timestamp),
                   Tail(data))

Step(kind, data) ==
    [kind |-> kind, prev |-> metrics, data |-> data,
     prevError |-> error, prevInterval |-> intervalId, prevEffect |-> effect]

\* ------------------------------------------------------------------- steps
Init ==
    /\ metrics = <<>>
    /\ error = NoError
    /\ effect = "pending"
    /\ intervalId = "none"
    /\ started = 0
    /\ inflight = {}
    /\ arrived = <<>>
    /\ last = [kind |-> "init", prev |-> <<>>, data |-> <<>>,
               prevError |-> NoError, prevInterval |-> "none",
               prevEffect |-> "pending"]

\* fetchMetrics up to its await: the request is sent and the call suspends.
callFetchMetrics ==
    /\ started' = started + 1
    /\ inflight' = inflight \cup {started + 1}

\* The effect body: fetchMetrics(); setInterval(fetchMetrics, 10000)
Mount ==
    /\ effect = "pending"
    /\ callFetchMetrics
    /\ intervalId' = "armed"
    /\ effect' = "mounted"
    /\ last' = Step("mount", <<>>)
    /\ UNCHANGED <<metrics, error, arrived>>

\* The interval fires and calls fetchMetrics.
Tick ==
    /\ intervalId = "armed"
    /\ started < MaxPolls
    /\ callFetchMetrics
    /\ last' = Step("tick", <<>>)
    /\ UNCHANGED <<metrics, error, effect, intervalId, arrived>>

\* Variant: a successful poll also resets the error flag.
FetchResolved_ClearsError(id, data) ==
    /\ id \in inflight
    /\ inflight' = inflight \ {id}
    /\ metrics' = updater(metrics, data)
    /\ arrived' = appendNew(arrived, data)
    /\ error' = NoError
    /\ last' = Step("resolved", data)
    /\ UNCHANGED <<effect, intervalId, started>>

\* axios.get resolves: the try block's setMetrics runs the updater.  The
\* continuation tests neither the effect's stage nor a cancellation flag, so
\* it runs the same after the cleanup.
FetchResolved(id, data) ==
    /\ id \in inflight
    /\ inflight' = inflight \ {id}
    /\ metrics' = updater(metrics, data)
    /\ arrived' = appendNew(arrived, data)
    /\ last' = Step("resolved", data)
    /\ UNCHANGED <<error, effect, intervalId, started>>

\* Variant: the catch block also cancels the interval.
FetchRejected_StopsPolling(id) ==
    /\ id \in inflight
    /\ inflight' = inflight \ {id}
    /\ error' = ErrorFetching
    /\ intervalId' = "cleared"
    /\ last' = Step("rejected", <<>>)
    /\ UNCHANGED <<metrics, effect, started, arrived>>

\* axios.get rejects: the catch block runs (likewise unguarded).
FetchRejected(id) ==
    /\ id \in inflight
    /\ inflight' = inflight \ {id}
    /\ error' = ErrorFetching
    /\ last' = Step("rejected", <<>>)
    /\ UNCHANGED <<metrics, effect, intervalId, started, arrived>>

\* The effect's cleanup: clearInterval(intervalId)
Cleanup ==
    /\ effect = "mounted"
    /\ intervalId' = "cleared"
    /\ effect' = "cleaned"
    /\ last' = Step("cleanup", <<>>)
    /\ UNCHANGED <<metrics, error, started, inflight, arrived>>

Next ==
    \/ Mount
    \/ Tick
    \/ \E id \in 1..MaxPolls, data \in Responses : FetchResolved(id, data)
    \/ \E id \in 1..MaxPolls : FetchRejected(id)
    \/ Cleanup

Spec == Init /\ [][Next]_vars

\* ============================================================== properties
\* Number of entries of s with timestamp t.
CountOf(s, t) == Cardinality({ i \in 1..Len(s) : s[i].timestamp = t })

\* Position of the earliest entry of s with timestamp t (t occurs in s).
EarliestAt(s, t) ==
    CHOOSE i \in 1..Len(s) :
        /\ s[i].timestamp = t
        /\ \A j \in 1..(i - 1) : s[j].timestamp # t

\* The entry of s with timestamp t (t occurs exactly once in s).
EntryOf(s, t) == s[CHOOSE i \in 1..Len(s) : s[i].timestamp = t]

\* The window before the last step followed by the response it delivered.
Arrivals == last.prev \o last.data

\* Timestamps for which Arrivals holds two samples differing in height or price.
Conflicting ==
    { Arrivals[i].timestamp :
        i \in { k \in 1..Len(Arrivals) :
                  \E j \in 1..Len(Arrivals) :
                      /\ Arrivals[j].timestamp = Arrivals[k].timestamp
                      /\ Arrivals[j] # Arrivals[k] } }

\* Timestamps that arrive for the first time after t does in Arrivals.
ArrivedAfter(t) ==
    LET e == EarliestAt(Arrivals, t)
    IN  { Arrivals[i].timestamp : i \in (e + 1)..Len(Arrivals) }
            \ { Arrivals[i].timestamp : i \in 1..e }

NoRepeats(s) ==
    \A i, j \in 1..Len(s) : i # j => s[i].timestamp # s[j].timestamp

\* ---------------------------------------------------------------------- C1
\* C1: in every reachable state the metrics window holds at most 10 samples.
C1_BoundedSize == Len(metrics) <= Capacity

\* A response longer than the capacity was merged and the window is full.
C1_Witness ==
    /\ last.kind = "resolved"
    /\ Len(last.data) > Capacity
    /\ Len(metrics) = Capacity

\* ---------------------------------------------------------------------- C2
\* C2: in every reachable state no two samples of the metrics window have
\* the same timestamp.
C2_NoDuplicateTimestamps == NoRepeats(metrics)

\* The merged response held one timestamp twice, and that timestamp was
\* already in the window.
C2_Witness ==
    /\ last.kind = "resolved"
    /\ ~NoRepeats(last.data)
    /\ TimestampsOf(last.data) \subseteq TimestampsOf(last.prev)
    /\ last.prev # <<>>

\* ---------------------------------------------------------------------- C3
\* C3 (as stated): after a merge, every timestamp for which the window
\* followed by the response holds two different samples has exactly one
\* entry in the merged window, and it is the earlier of them.
C3_ExactlyOneEarlier ==
    last.kind = "resolved" =>
        \A t \in Conflicting :
            /\ CountOf(metrics, t) = 1
            /\ EntryOf(metrics, t) = Arrivals[EarliestAt(Arrivals, t)]

\* C3 (amended): such a timestamp has at most one entry in the merged
\* window; it has one unless at least 10 distinct timestamps arrive after it
\* (the truncation then drops it); an entry, when present, is the earlier
\* sample, so a sample in the window is never replaced by a fetched one.
C3_AtMostOneEarlier ==
    last.kind = "resolved" =>
        \A t \in Conflicting :
            /\ CountOf(metrics, t) <= 1
            /\ CountOf(metrics, t) = 1
                   <=> Cardinality(ArrivedAfter(t)) < Capacity
            /\ CountOf(metrics, t) = 1
                   => EntryOf(metrics, t) = Arrivals[EarliestAt(Arrivals, t)]

\* A fetched sample collided with a different sample already in the window,
\* and the timestamp is still in the merged window.
C3_Witness ==
    /\ last.kind = "resolved"
    /\ \E t \in Conflicting :
           /\ t \in TimestampsOf(last.prev)
           /\ t \in TimestampsOf(metrics)

\* ---------------------------------------------------------------------- C4
\* C4: a successful poll whose response holds only timestamps already in the
\* window leaves the window as it was (same samples, order and values).
C4_IdempotentReplay ==
    (/\ last.kind = "resolved"
     /\ TimestampsOf(last.data) \subseteq TimestampsOf(last.prev))
        => metrics = last.prev

\* A non-empty replay whose samples differ in value from the window's.
C4_Witness ==
    /\ last.kind = "resolved"
    /\ last.data # <<>>
    /\ TimestampsOf(last.data) \subseteq TimestampsOf(last.prev)
    /\ \E i \in 1..Len(last.data) :
           last.data[i] # EntryOf(last.prev, last.data[i].timestamp)
    /\ Len(last.prev) > Len(last.data)

\* ---------------------------------------------------------------------- C5
\* C5: when a poll's source call fails the window is what it was before, the
\* error flag is set, and the timer is as armed as it was, so that the next
\* poll still fires.
C5_FailureKeepsWindowAndTimer ==
    last.kind = "rejected" =>
        /\ metrics = last.prev
        /\ error = ErrorFetching
        /\ intervalId = last.prevInterval
        /\ (last.prevInterval = "armed" /\ started < MaxPolls) => ENABLED Tick

\* A poll failed with samples in the window and the timer armed.
C5_Witness ==
    /\ last.kind = "rejected"
    /\ last.prevError = NoError
    /\ metrics # <<>>
    /\ intervalId = "armed"

\* ---------------------------------------------------------------------- C6
\* C6 (as stated): at most one poll cycle is ever between starting its fetch
\* and applying its merge.
C6_NoOverlappingCycles == Cardinality(inflight) <= 1

\* ---------------------------------------------------------------------- C7
\* C7 (as stated): once the effect cleanup has run, no step changes the
\* window or the error flag.
C7_NoUpdateAfterTeardown ==
    last.prevEffect = "cleaned" =>
        /\ metrics = last.prev
        /\ error = last.prevError

\* ---------------------------------------------------------------------- C8
\* C8 (as stated): the window's timestamps are the last min(10, n) of the n
\* distinct timestamps received so far, in order of first arrival.
C8_LatestByFirstArrival ==
    LET n == Len(arrived)
        k == Min(Capacity, n)
    IN  /\ Len(metrics) = k
        /\ \A i \in 1..k : metrics[i].timestamp = arrived[n - k + i]

\* ---------------------------------------------------------------------- C9
\* C9: a merge only drops from the front and never reorders.  The merged
\* window is a suffix of the old window followed by samples of the response
\* with timestamps new to the window, in their order of first arrival; it
\* holds min(10, distinct timestamps) entries; a new timestamp is dropped
\* only when every old entry is dropped; and a full window that receives
\* k <= 10 samples with new distinct timestamps is the old window without
\* its k front entries, followed by the response.
C9_DropsFrontKeepsOrder ==
    last.kind = "resolved" =>
        LET prev == last.prev
            data == last.data
            new == TimestampsOf(data) \ TimestampsOf(prev)
            kept == Cardinality({ i \in 1..Len(metrics) :
                         metrics[i].timestamp \in TimestampsOf(prev) })
        IN  /\ SubSeq(metrics, 1, kept)
                   = SubSeq(prev, Len(prev) - kept + 1, Len(prev))
            /\ \A i \in (kept + 1)..Len(metrics) :
                   /\ metrics[i].timestamp \in new
                   /\ metrics[i] = data[EarliestAt(data, metrics[i].timestamp)]
            /\ \A i, j \in (kept + 1)..Len(metrics) :
                   i < j => EarliestAt(data, metrics[i].timestamp)
                                < EarliestAt(data, metrics[j].timestamp)
            /\ Len(metrics)
                   = Min(Capacity, Cardinality(TimestampsOf(prev) \cup new))
            /\ ~(new \subseteq TimestampsOf(metrics)) => kept = 0
            /\ \A t \in new \ TimestampsOf(metrics) :
                   \A u \in new \cap TimestampsOf(metrics) :
                       EarliestAt(data, t) < EarliestAt(data, u)
            /\ (/\ Len(prev) = Capacity
                /\ NoRepeats(data)
                /\ Len(data) <= Capacity
                /\ new = TimestampsOf(data))
                   => metrics = SubSeq(prev, Len(data) + 1, Capacity) \o data

\* A full window received a non-empty response of new distinct timestamps.
C9_Witness ==
    /\ last.kind = "resolved"
    /\ Len(last.prev) = Capacity
    /\ last.data # <<>>
    /\ NoRepeats(last.data)
    /\ TimestampsOf(last.data) \cap TimestampsOf(last.prev) = {}

\* --------------------------------------------------------------------- C10
\* C10: the error flag starts unset, is set by a failed poll, and once set
\* stays set through every later step.
C10_ErrorIsSticky ==
    /\ last.kind = "init" => error = NoError
    /\ last.kind = "rejected" => error = ErrorFetching
    /\ last.prevError = ErrorFetching => error = ErrorFetching

\* A poll succeeded and changed the window with the error flag set.
C10_Witness ==
    /\ last.kind = "resolved"
    /\ last.prevError = ErrorFetching
    /\ metrics # last.prev
    /\ error = ErrorFetching

====
